---- MODULE Spec2Model ----
(***************************************************************************)
(* State-machine model of the backend of the news/video CMS:                *)
(*   - the Credential Store (models/User.js) and the Auth Guard             *)
(*     (routes/auth.js, middleware/auth.js, routes/admin.js);               *)
(*   - the Content Store (models/News.js, models/Video.js) and the          *)
(*     content routes (routes/news.js, routes/videos.js).                   *)
(*                                                                         *)
(* The specifications share the variables:                                 *)
(*   Spec        the auth and admin routes, one whole handler per step;    *)
(*   NewsSpec    the article routes, one whole handler per step;           *)
(*   VideoSpec   the video routes that write the URL and its id;           *)
(*   EngageSpec  the routes of both kinds on status and counters;          *)
(*   ConcSpec    GET /:id, share and like served concurrently, one step    *)
(*               per store round trip (await).                             *)
(*                                                                         *)
(* Abstractions: time is counted in hours; a bcrypt hash is the pair        *)
(* <<"bcrypt", password>>; a signed JWT is a record of its payload and the  *)
(* verdict of jwt.verify; timestamps that no route reads back (lastLogin,   *)
(* analytics.lastActiveAt, createdAt, updatedAt) are left out.              *)
(***************************************************************************)
EXTENDS Integers, Sequences, FiniteSets, TLC

VARIABLES
    users,      \* Credential Store: email -> account document
    issued,     \* emails a non-guest token has been issued to
    now,        \* Date.now(), in hours
    runs,       \* history: per account, the current run of wrong-password logins
    resp,       \* the last response of the auth routes
    news,       \* Content Store: article id -> document
    videos,     \* Content Store: video id -> document
    gone,       \* Content Store: the ids of the deleted documents, per kind
    cresp,      \* the last response of the content routes
    pc,         \* ConcSpec: per request, the handler's position
    doc,        \* ConcSpec: per request, the document the handler loaded
    acks,       \* ConcSpec history: per item and counter, 200 responses sent
    attempts,   \* rateLimitMiddleware: the Map of one limiter, ip -> entry
    passed,     \* history: per entry of the Map, the requests passed on
    lresp       \* the last answer of the limiter

authVars == <<users, issued, now, runs, resp>>
contentVars == <<news, videos, gone, cresp>>
concVars == <<pc, doc, acks>>
limitVars == <<attempts, passed, lresp>>
vars ==
    <<users, issued, now, runs, resp, news, videos, gone, cresp, pc, doc, acks,
      attempts, passed, lresp>>

(***************************************************************************)
(* Bounds of the model.                                                    *)
(***************************************************************************)
MaxTime == 4
\* Documents ever created per kind, and the engagement one document receives.
MaxNews == 1
MaxVideos == 2
MaxCount == 2
NumProcs == 2
MaxRequests == 2
\* Wrong-password logins evaluated on one account when logins run at once.
MaxWrong == 7

\* The addresses that register through the API, the passwords they try, and
\* the seeded administrator (a super_admin cannot be created through the
\* API: validateRegister admits the roles user and admin only).
Emails == {"e1"}
Passwords == {"p1", "p2"}
RegisterPasswords == {"p1"}
Root == "root"
RootPassword == "p0"

(***************************************************************************)
(* models/User.js                                                          *)
(***************************************************************************)
\* const maxAttempts = 5
maxAttempts == 5
\* const lockTime = 2 * 60 * 60 * 1000, in hours
lockTime == 2

Roles == {"user", "admin", "super_admin"}
Statuses == {"active", "inactive", "suspended"}

\* bcrypt.hash in pre('save')
bcryptHash(p) == <<"bcrypt", p>>

\* new User({name, email, password, phone, role}) after the first save():
\* the schema defaults, and the password hashed. lockUntil is a set: empty
\* when the field is absent, else the one date. An absent loginAttempts is
\* read back as its default 0, so the field is kept as a number.
NewUser(p, role) ==
    [ role |-> role, status |-> "active", password |-> bcryptHash(p),
      loginAttempts |-> 0, lockUntil |-> {} ]

\* virtual isLocked: !!(this.lockUntil && this.lockUntil > Date.now())
isLocked(u, t) == \E l \in u.lockUntil : l > t

\* comparePassword: bcrypt.compare(candidate, this.password)
comparePassword(u, candidate) == u.password = bcryptHash(candidate)

\* Mutant of LocksNow: the threshold compared before the increment.
LocksNowLate(u, t) == u.loginAttempts >= maxAttempts /\ ~isLocked(u, t)

\* The lock condition of incLoginAttempts.
LocksNow(u, t) == u.loginAttempts + 1 >= maxAttempts /\ ~isLocked(u, t)

\* incLoginAttempts run on the loaded document u at time t, as one
\* updateOne on the stored document s (u = s when nothing ran in between).
incLoginAttempts(u, s, t) ==
    IF \E l \in u.lockUntil : l < t
    THEN [s EXCEPT !.lockUntil = {}, !.loginAttempts = 1]
    ELSE IF LocksNow(u, t)
         THEN [s EXCEPT !.loginAttempts = @ + 1, !.lockUntil = {t + lockTime}]
         ELSE [s EXCEPT !.loginAttempts = @ + 1]

\* Mutant of resetLoginAttempts: only the lock is removed.
resetLockOnly(s) == [s EXCEPT !.lockUntil = {}]

\* resetLoginAttempts: $unset loginAttempts and lockUntil
resetLoginAttempts(s) == [s EXCEPT !.loginAttempts = 0, !.lockUntil = {}]

(***************************************************************************)
(* middleware/auth.js                                                      *)
(***************************************************************************)
\* What jwt.verify makes of the Authorization header: no bearer token, a
\* token it rejects (JsonWebTokenError, TokenExpiredError), or the payload.
NoToken == [kind |-> "none", userId |-> "none", isGuest |-> FALSE]
Tokens ==
    {NoToken}
    \cup {[kind |-> "valid", userId |-> e, isGuest |-> FALSE] : e \in issued}
    \cup {[kind |-> k, userId |-> "none", isGuest |-> FALSE] :
              k \in {"malformed", "expired"}}
    \cup {[kind |-> "valid", userId |-> "guest", isGuest |-> TRUE]}

\* A token that was issued to an account which is no longer stored.
DeletedToken == [kind |-> "valid", userId |-> "deleted", isGuest |-> FALSE]

\* req.user when no middleware has set it
NoUser == [userId |-> "none", role |-> "none"]

\* The account checks of authMiddleware on the document it loaded:
\* 403 unless active, 423 when locked, 0 to go on.
AccountGate(u, t) ==
    IF u.status # "active" THEN 403
    ELSE IF isLocked(u, t) THEN 423
    ELSE 0

\* An authMiddleware that looks every token's account up.
authMiddlewareNoGuest(tok, us, t) ==
    IF tok.kind # "valid" THEN [code |-> 401, user |-> NoUser]
    ELSE IF tok.userId \notin DOMAIN us THEN [code |-> 401, user |-> NoUser]
    ELSE IF AccountGate(us[tok.userId], t) # 0
         THEN [code |-> AccountGate(us[tok.userId], t), user |-> NoUser]
    ELSE [code |-> 0,
          user |-> [userId |-> tok.userId, role |-> us[tok.userId].role]]

\* authMiddleware: the response code (0: next() was called) and req.user.
authMiddleware(tok, us, t) ==
    IF tok.kind = "none" THEN [code |-> 401, user |-> NoUser]
    ELSE IF tok.kind # "valid" THEN [code |-> 401, user |-> NoUser]
    ELSE IF tok.isGuest
         THEN [code |-> 0, user |-> [userId |-> tok.userId, role |-> "guest"]]
    ELSE IF tok.userId \notin DOMAIN us THEN [code |-> 401, user |-> NoUser]
    ELSE IF AccountGate(us[tok.userId], t) # 0
         THEN [code |-> AccountGate(us[tok.userId], t), user |-> NoUser]
    ELSE [code |-> 0,
          user |-> [userId |-> tok.userId, role |-> us[tok.userId].role]]

optionalAuthAnyAccount(tok, us, t) ==
    IF tok.kind # "valid" THEN NoUser
    ELSE IF tok.isGuest THEN [userId |-> tok.userId, role |-> "guest"]
    ELSE IF tok.userId \notin DOMAIN us THEN NoUser
    ELSE [userId |-> tok.userId, role |-> us[tok.userId].role]

\* optionalAuthMiddleware: req.user, set for a guest token and for the token
\* of an account that is active and not locked; next() is always called.
optionalAuthMiddleware(tok, us, t) ==
    IF tok.kind # "valid" THEN NoUser
    ELSE IF tok.isGuest THEN [userId |-> tok.userId, role |-> "guest"]
    ELSE IF tok.userId \notin DOMAIN us THEN NoUser
    ELSE IF us[tok.userId].status = "active" /\ ~isLocked(us[tok.userId], t)
    THEN [userId |-> tok.userId, role |-> us[tok.userId].role]
    ELSE NoUser

\* An admin guard that admits every authenticated caller.
adminMiddlewareAnyRole(ru) == IF ru = NoUser THEN 401 ELSE 0

\* adminMiddleware on req.user: 401, 403, or 0 when next() is called
adminMiddleware(ru) ==
    IF ru = NoUser THEN 401
    ELSE IF ru.role \notin {"admin", "super_admin"} THEN 403
    ELSE 0

\* Mutant of superAdminMiddleware: the role list of adminMiddleware.
superAdminAsAdmin(ru) ==
    IF ru = NoUser THEN 401
    ELSE IF ru.role \notin {"admin", "super_admin"} THEN 403
    ELSE 0

\* superAdminMiddleware on req.user
superAdminMiddleware(ru) ==
    IF ru = NoUser THEN 401
    ELSE IF ru.role # "super_admin" THEN 403
    ELSE 0

\* router.use(authMiddleware); router.use(adminMiddleware) of routes/admin.js
\* and [authMiddleware, adminMiddleware] of the content routes.
adminGuard(tok, us, t) ==
    LET a == authMiddleware(tok, us, t) IN
    IF a.code # 0 THEN a ELSE [code |-> adminMiddleware(a.user), user |-> a.user]

(***************************************************************************)
(* models/News.js, models/Video.js                                         *)
(***************************************************************************)
\* The one element of a set that holds an optional field's value.
The(S) == CHOOSE x \in S : TRUE

\* A YouTube URL is a sequence of these pieces of text. Word pieces match
\* [\w-]+; "ID1" and "ID2" stand for 11 such characters, "abc" for 3.
WordPieces == {"watch", "ID1", "ID2", "abc"}
StopPieces == {"?", "&", "#"}

\* The pieces from position i on.
From(url, i) == SubSeq(url, i, Len(url))

\* Whether the pieces pre start url at position i.
StartsAt(url, i, pre) ==
    /\ i + Len(pre) - 1 <= Len(url)
    /\ SubSeq(url, i, i + Len(pre) - 1) = pre

\* The longest run of pieces outside [&\n?#] from position i: ([^&\n?#]+)
RECURSIVE Capture(_, _)
Capture(url, i) ==
    IF i > Len(url) \/ url[i] \in StopPieces THEN <<>>
    ELSE <<url[i]>> \o Capture(url, i + 1)

\* The three prefixes of the first pattern of extractYouTubeId.
IdPrefixes ==
    { <<"youtube.com/", "watch", "?", "v=">>, <<"youtu.be/">>,
      <<"youtube.com/", "embed/">> }

\* The first pattern matches at position i: a prefix, then a nonempty capture.
Matches1(url, i) ==
    \E pre \in IdPrefixes :
        StartsAt(url, i, pre) /\ Capture(url, i + Len(pre)) # <<>>

\* The second pattern, youtube\.com\/watch\?.*v=([^&\n?#]+): "v=" at
\* position j, after youtube.com/watch? somewhere before it.
Matches2(url, j) ==
    /\ j <= Len(url) /\ url[j] = "v="
    /\ Capture(url, j + 1) # <<>>
    /\ \E i \in 1..(j - 3) : StartsAt(url, i, <<"youtube.com/", "watch", "?">>)

\* extractYouTubeId: the capture of the leftmost match of the first pattern,
\* else of the second (whose greedy .* takes the last "v="), else null (<<>>).
extractYouTubeId(url) ==
    IF \E i \in 1..Len(url) : Matches1(url, i)
    THEN LET i == CHOOSE k \in 1..Len(url) :
                      Matches1(url, k) /\ \A m \in 1..(k - 1) : ~Matches1(url, m)
             pre == CHOOSE q \in IdPrefixes :
                      StartsAt(url, i, q) /\ Capture(url, i + Len(q)) # <<>>
         IN Capture(url, i + Len(pre))
    ELSE IF \E j \in 1..Len(url) : Matches2(url, j)
    THEN LET j == CHOOSE k \in 1..Len(url) :
                      Matches2(url, k)
                      /\ \A m \in (k + 1)..Len(url) : ~Matches2(url, m)
         IN Capture(url, j + 1)
    ELSE <<>>

\* The URLs tried.
UrlWatch1 == <<"https://", "www.", "youtube.com/", "watch", "?", "v=", "ID1">>
UrlShort1 == <<"https://", "youtu.be/", "ID1">>
UrlShort1T == <<"https://", "youtu.be/", "ID1", "?", "t=", "abc">>
UrlEmbed2 == <<"https://", "youtube.com/", "embed/", "ID2">>
UrlShortAbc == <<"https://", "youtu.be/", "abc">>
UrlEmbed2Path == <<"https://", "youtube.com/", "embed/", "ID2", "/", "abc">>
UrlWatchLate2 ==
    <<"https://", "youtube.com/", "watch", "?", "t=", "abc", "&", "v=", "ID2">>
UrlOther == <<"https://", "example.com/", "ID1">>
Urls ==
    { UrlWatch1, UrlShort1, UrlShort1T, UrlEmbed2, UrlShortAbc, UrlEmbed2Path,
      UrlWatchLate2, UrlOther }

\* extractYouTubeId(req.body.youtubeUrl) on each of the URLs tried.
YoutubeIdOf == [url \in Urls |-> extractYouTubeId(url)]

\* validateVideo's youtubeUrl rule:
\* ^https?:\/\/(www\.)?(youtube\.com\/(watch\?v=|embed\/)|youtu\.be\/)[\w-]+
UrlValid(url) ==
    /\ Len(url) >= 1 /\ url[1] = "https://"
    /\ LET i == IF Len(url) >= 2 /\ url[2] = "www." THEN 3 ELSE 2 IN
       \E pre \in IdPrefixes :
           /\ StartsAt(url, i, pre)
           /\ i + Len(pre) <= Len(url)
           /\ url[i + Len(pre)] \in WordPieces

\* videoSchema.youtubeId validator: /^[\w-]{11}$/
IdValid(id) == Len(id) = 1 /\ id[1] \in {"ID1", "ID2"}

\* The schema validator "min: 0" of the counters, run by save() and, with
\* runValidators, by findByIdAndUpdate, on the counter a body carries.
CountersValid(body) == \A n \in body.views : n >= 0

\* The pre('save') hook of both schemas, on publishedAt: set when status was
\* modified to published and no date is there, removed when it was modified
\* to draft.
PreSave(d, statusModified, t) ==
    LET d1 == IF statusModified /\ d.status = "published" /\ d.publishedAt = {}
              THEN [d EXCEPT !.publishedAt = {t}] ELSE d
    IN IF statusModified /\ d1.status = "draft"
       THEN [d1 EXCEPT !.publishedAt = {}] ELSE d1

\* new News({...req.body, createdBy}) and its first save(): a status given in
\* the body counts as modified, the default draft does not.
NewNews(body, owner, t) ==
    PreSave([ status |-> IF body.status = {} THEN "draft" ELSE The(body.status),
              publishedAt |-> body.publishedAt,
              views |-> IF body.views = {} THEN 0 ELSE The(body.views),
              shares |-> 0, createdBy |-> owner ],
            body.status # {}, t)

\* new Video({...req.body, youtubeId, createdBy}) and its first save()
NewVideo(body, id, owner, t) ==
    PreSave([ status |-> IF body.status = {} THEN "draft" ELSE The(body.status),
              publishedAt |-> body.publishedAt,
              views |-> IF body.views = {} THEN 0 ELSE The(body.views),
              shares |-> 0, likes |-> 0,
              youtubeUrl |-> body.youtubeUrl, youtubeId |-> id,
              createdBy |-> owner ],
            body.status # {}, t)

\* findByIdAndUpdate(id, updateData) of the article route: the fields of the
\* body are set on the stored document; no save hook runs.
UpdateNewsDoc(d, body) ==
    [d EXCEPT !.status = IF body.status = {} THEN @ ELSE The(body.status),
              !.publishedAt = IF body.publishedAt = {} THEN @
                              ELSE body.publishedAt,
              !.views = IF body.views = {} THEN @ ELSE The(body.views),
              !.createdBy = IF body.createdBy = {} THEN @
                            ELSE The(body.createdBy)]

UpdateVideoDocBodyId(d, body) ==
    [d EXCEPT !.status = IF body.status = {} THEN @ ELSE The(body.status),
              !.youtubeUrl = body.youtubeUrl,
              !.youtubeId = IF body.youtubeId = {}
                            THEN YoutubeIdOf[body.youtubeUrl]
                            ELSE The(body.youtubeId)]

\* findByIdAndUpdate(id, updateData) of the video route, updateData.youtubeId
\* being the id extracted from the body's URL.
UpdateVideoDoc(d, body) ==
    [d EXCEPT !.status = IF body.status = {} THEN @ ELSE The(body.status),
              !.publishedAt = IF body.publishedAt = {} THEN @
                              ELSE body.publishedAt,
              !.views = IF body.views = {} THEN @ ELSE The(body.views),
              !.createdBy = IF body.createdBy = {} THEN @
                            ELSE The(body.createdBy),
              !.youtubeUrl = body.youtubeUrl,
              !.youtubeId = YoutubeIdOf[body.youtubeUrl]]

\* incrementShares / incrementLikes on the loaded document d, then save():
\* the save sets the stored field to the loaded value plus one. On the
\* loaded document status is unmodified, so the hook changes nothing.
saveShares(s, d) == [s EXCEPT !.shares = d.shares + 1]
saveLikes(s, d) == [s EXCEPT !.likes = d.likes + 1]

\* incrementViews on the loaded document d, then save(): not called by any
\* route.
saveViews(s, d) == [s EXCEPT !.views = d.views + 1]

\* findByIdAndUpdate(id, {$inc: {views: 1}}) of GET /:id, which holds the
\* loaded article d: the store adds one to the stored field.
incViews(s, d) == [s EXCEPT !.views = s.views + 1]

(***************************************************************************)
(* routes/auth.js and routes/admin.js: one action per handler.             *)
(***************************************************************************)
\* History of the wrong-password logins of one account: n consecutive ones
\* (at most maxAttempts are counted) that began with loginAttempts 0 and no
\* lock, whether the account was active at each, and the time of the last.
FreshRun == [n |-> 0, active |-> TRUE, at |-> 0]

\* The run is complete and fewer than lockTime hours have passed since.
RunLocked(r, t) == r.n = maxAttempts /\ t < r.at + lockTime

RunAfter(r, u, p, t) ==
    LET r0 == IF r.n = maxAttempts /\ ~RunLocked(r, t) THEN FreshRun ELSE r IN
    IF r0.n = maxAttempts THEN r0
    ELSE IF comparePassword(u, p) THEN FreshRun
    ELSE IF r0.n > 0 \/ (u.loginAttempts = 0 /\ u.lockUntil = {})
         THEN [n |-> r0.n + 1, active |-> r0.active /\ u.status = "active",
               at |-> t]
         ELSE FreshRun

\* POST /register: the role validator, the duplicate check, two save()s.
Register(e, p, role) ==
    /\ IF role \notin {"user", "admin"}
       THEN /\ resp' = [op |-> "register", email |-> e, code |-> 400]
            /\ UNCHANGED <<users, issued, runs>>
       ELSE IF e \in DOMAIN users
       THEN /\ resp' = [op |-> "register", email |-> e, code |-> 400]
            /\ UNCHANGED <<users, issued, runs>>
       ELSE /\ users' = users @@ (e :> NewUser(p, role))
            /\ issued' = issued \cup {e}
            /\ runs' = runs @@ (e :> FreshRun)
            /\ resp' = [op |-> "register", email |-> e, code |-> 201]
    /\ UNCHANGED <<now, contentVars, concVars, limitVars>>

\* A login handler without the lock check.
LoginCodeNoLock(u, p, t) ==
    IF u.status # "active" THEN 403
    ELSE IF ~comparePassword(u, p) THEN 401
    ELSE 200

\* The response code of POST /login for the loaded document u.
LoginCode(u, p, t) ==
    IF isLocked(u, t) THEN 423
    ELSE IF u.status # "active" THEN 403
    ELSE IF ~comparePassword(u, p) THEN 401
    ELSE 200

\* "if (user.loginAttempts > 0) await user.resetLoginAttempts()"; the save()
\* that follows writes lastLogin and analytics.lastActiveAt only.
LoginSuccess(u) == IF u.loginAttempts > 0 THEN resetLoginAttempts(u) ELSE u

\* A login handler that counts every refused login.
LoginStoreCountsAll(u, p, t) ==
    IF LoginCode(u, p, t) = 200 THEN LoginSuccess(u)
    ELSE incLoginAttempts(u, u, t)

\* The stored document after POST /login on document u.
LoginStore(u, p, t) ==
    IF LoginCode(u, p, t) = 401 THEN incLoginAttempts(u, u, t)
    ELSE IF LoginCode(u, p, t) = 200 THEN LoginSuccess(u)
    ELSE u

\* POST /login
Login(e, p) ==
    /\ IF e \notin DOMAIN users
       THEN /\ resp' = [op |-> "login", email |-> e, code |-> 401,
                        known |-> FALSE]
            /\ UNCHANGED <<users, issued, runs>>
       ELSE LET u == users[e] IN
            /\ users' = [users EXCEPT ![e] = LoginStore(u, p, now)]
            /\ issued' = IF LoginCode(u, p, now) = 200
                         THEN issued \cup {e} ELSE issued
            /\ runs' = [runs EXCEPT ![e] = RunAfter(@, u, p, now)]
            /\ resp' = [op |-> "login", email |-> e,
                        code |-> LoginCode(u, p, now), known |-> TRUE,
                        ok |-> comparePassword(u, p),
                        prev |-> u.loginAttempts,
                        inRun |-> RunLocked(runs[e], now),
                        runActive |-> runs[e].active]
    /\ UNCHANGED <<now, contentVars, concVars, limitVars>>

\* The phones tried; the phone that the registration requests carry; the
\* address `${phone}@temp.com` and the random password of an account that
\* POST /phone-login creates.
Phones == {"ph1"}
RegisterPhone == "ph1"
TempEmail == ("ph1" :> "ph1@temp.com")
RandomPassword == "random"
validOTP == "1234"

\* The phone field of the account stored under address e.
PhoneOf(e) ==
    IF e \in Emails THEN {RegisterPhone}
    ELSE {ph \in Phones : TempEmail[ph] = e}

\* User.findOne({ phone }): the accounts it can return.
WithPhone(us, ph) == {e \in DOMAIN us : ph \in PhoneOf(e)}

\* The response code of POST /phone-login for the document u found or
\* created.
PhoneLoginCode(u) == IF u.status # "active" THEN 403 ELSE 200

\* POST /phone-login: valid says whether validatePhoneOTP accepts the body.
PhoneLogin(ph, otp, valid) ==
    /\ IF ~valid \/ otp # validOTP
       THEN /\ resp' = [op |-> "phoneLogin", phone |-> ph, email |-> "none",
                        code |-> IF ~valid THEN 400 ELSE 401,
                        locked |-> FALSE]
            /\ UNCHANGED <<users, issued, runs>>
       ELSE IF WithPhone(users, ph) = {}
       THEN LET e == TempEmail[ph]
                u == NewUser(RandomPassword, "user") IN
            /\ users' = users @@ (e :> u)
            /\ runs' = runs @@ (e :> FreshRun)
            /\ issued' = IF PhoneLoginCode(u) = 200
                         THEN issued \cup {e} ELSE issued
            /\ resp' = [op |-> "phoneLogin", phone |-> ph, email |-> e,
                        code |-> PhoneLoginCode(u), locked |-> FALSE]
       ELSE \E e \in WithPhone(users, ph) :
            /\ issued' = IF PhoneLoginCode(users[e]) = 200
                         THEN issued \cup {e} ELSE issued
            /\ resp' = [op |-> "phoneLogin", phone |-> ph, email |-> e,
                        code |-> PhoneLoginCode(users[e]),
                        locked |-> isLocked(users[e], now)]
            /\ UNCHANGED <<users, runs>>
    /\ UNCHANGED <<now, contentVars, concVars, limitVars>>

\* The response code of GET /me: 401 without a token, for a token that
\* jwt.verify rejects and for a guest id (findById throws a CastError),
\* 404 when the account is gone, else 200.
MeCode(tok, us, t) ==
    IF tok.kind # "valid" THEN 401
    ELSE IF tok.isGuest THEN 401
    ELSE IF tok.userId \notin DOMAIN us THEN 404
    ELSE 200

\* GET /me (its save() writes analytics.lastActiveAt only)
Me(tok) ==
    /\ resp' = [op |-> "me", code |-> MeCode(tok, users, now),
                as |-> tok.userId]
    /\ UNCHANGED <<users, issued, now, runs, contentVars, concVars, limitVars>>

\* jwt.sign({ userId: guestUser.id, isGuest: true }) as jwt.verify reads it.
GuestToken == [kind |-> "valid", userId |-> "guest", isGuest |-> TRUE]

\* POST /guest
Guest ==
    /\ resp' = [op |-> "guest", code |-> 200, token |-> GuestToken,
                role |-> "guest"]
    /\ UNCHANGED <<users, issued, now, runs, contentVars, concVars, limitVars>>

\* PUT /admin/users/:id/status behind authMiddleware and adminMiddleware:
\* the validator reads the query's status (qs), the handler the body's (bs);
\* runValidators rejects a body status outside the enum (500).
UserStatusCode(tok, id, qs, bs, us, t) ==
    LET g == adminGuard(tok, us, t) IN
    IF g.code # 0 THEN g.code
    ELSE IF qs \notin Statuses THEN 400
    ELSE IF bs \notin Statuses THEN 500
    ELSE IF id \notin DOMAIN us THEN 404
    ELSE 200

UpdateUserStatus(tok, id, qs, bs) ==
    /\ users' = IF UserStatusCode(tok, id, qs, bs, users, now) = 200
                THEN [users EXCEPT ![id].status = bs] ELSE users
    /\ resp' = [op |-> "userStatus",
                code |-> UserStatusCode(tok, id, qs, bs, users, now)]
    /\ UNCHANGED <<issued, now, runs, contentVars, concVars, limitVars>>

\* Any other route behind authMiddleware alone or behind both middlewares.
Protected(tok) ==
    /\ resp' = [op |-> "protected",
                code |-> authMiddleware(tok, users, now).code,
                as |-> authMiddleware(tok, users, now).user.userId]
    /\ UNCHANGED <<users, issued, now, runs, contentVars, concVars, limitVars>>

\* A route behind optionalAuthMiddleware: every path of the middleware ends
\* in next() (code 0), with or without req.user.
Optional(tok) ==
    /\ resp' = [op |-> "optional", code |-> 0, token |-> tok,
                user |-> optionalAuthMiddleware(tok, users, now)]
    /\ UNCHANGED <<users, issued, now, runs, contentVars, concVars, limitVars>>

\* adminMiddleware and superAdminMiddleware on a request whose req.user is ru.
RoleCheck(ru) ==
    /\ resp' = [op |-> "roleCheck", user |-> ru,
                admin |-> adminMiddleware(ru),
                super |-> superAdminMiddleware(ru)]
    /\ UNCHANGED <<users, issued, now, runs, contentVars, concVars, limitVars>>

\* ownershipMiddleware(resourceModel) on a request whose req.user is ru, the
\* document resourceModel.findById returns being resource: 0 stands for
\* next().
ownershipMiddleware(ru, resource) ==
    IF ru = NoUser THEN 401
    ELSE IF ru.role \in {"admin", "super_admin"} THEN 0
    ELSE IF ~resource.found THEN 404
    ELSE IF resource.createdBy # {} /\ resource.createdBy # {ru.userId}
    THEN 403
    ELSE 0

Ownership(ru, resource) ==
    /\ resp' = [op |-> "ownership", user |-> ru, resource |-> resource,
                code |-> ownershipMiddleware(ru, resource)]
    /\ UNCHANGED <<users, issued, now, runs, contentVars, concVars, limitVars>>

\* Date.now() advances.
Tick ==
    /\ now < MaxTime
    /\ now' = now + 1
    /\ UNCHANGED <<users, issued, runs, resp, contentVars, concVars, limitVars>>

(***************************************************************************)
(* routes/news.js and routes/videos.js: one action per handler.            *)
(***************************************************************************)
Kinds == {"news", "video"}

\* The collection of a kind.
Store(kind) == IF kind = "news" THEN news ELSE videos

\* The stored document under an id, as a set: empty when there is none.
Was(store, id) == IF id \in DOMAIN store THEN {store[id]} ELSE {}

\* The id of the next document created: ids are never used again.
NextId(store, dead) == Cardinality(DOMAIN store \cup dead) + 1

\* The views, shares and likes a document has received.
NewsEngagement(d) == d.views + d.shares
VideoEngagement(d) == d.views + d.shares + d.likes

\* POST /news behind [authMiddleware, adminMiddleware, ...validateNews]
CreateNewsCode(tok, body, us, t) ==
    LET g == adminGuard(tok, us, t) IN
    IF g.code # 0 THEN g.code
    ELSE IF ~body.ok THEN 400
    ELSE IF ~CountersValid(body) THEN 500
    ELSE 201

CreateNews(tok, body) ==
    LET code == CreateNewsCode(tok, body, users, now)
        id == NextId(news, gone.news) IN
    /\ code = 201 => id <= MaxNews
    /\ news' = IF code = 201
               THEN news @@ (id :> NewNews(body,
                        adminGuard(tok, users, now).user.userId, now))
               ELSE news
    /\ cresp' = [op |-> "create", kind |-> "news", tok |-> tok, id |-> id,
                 code |-> code, body |-> body]
    /\ UNCHANGED <<videos, gone, authVars, concVars, limitVars>>

\* PUT /news/:id behind the same middlewares
UpdateNewsCode(tok, id, body, us, t, store) ==
    LET g == adminGuard(tok, us, t) IN
    IF g.code # 0 THEN g.code
    ELSE IF ~body.ok THEN 400
    ELSE IF ~CountersValid(body) THEN 500
    ELSE IF id \notin DOMAIN store THEN 404
    ELSE 200

UpdateNews(tok, id, body) ==
    LET code == UpdateNewsCode(tok, id, body, users, now, news) IN
    /\ news' = IF code = 200
               THEN [news EXCEPT ![id] = UpdateNewsDoc(@, body)] ELSE news
    /\ cresp' = [op |-> "update", kind |-> "news", tok |-> tok, id |-> id,
                 code |-> code, body |-> body,
                 was |-> Was(news, id)]
    /\ UNCHANGED <<videos, gone, authVars, concVars, limitVars>>

DeleteCodeDraftsOnly(tok, id, us, t, store) ==
    LET g == adminGuard(tok, us, t) IN
    IF g.code # 0 THEN g.code
    ELSE IF id \notin DOMAIN store THEN 404
    ELSE IF store[id].status = "published" THEN 403
    ELSE 200

\* DELETE /:id of both routes behind [authMiddleware, adminMiddleware]
DeleteCode(tok, id, us, t, store) ==
    LET g == adminGuard(tok, us, t) IN
    IF g.code # 0 THEN g.code
    ELSE IF id \notin DOMAIN store THEN 404
    ELSE 200

\* The store without the document id.
Without(store, id) == [x \in DOMAIN store \ {id} |-> store[x]]

DeleteNews(tok, id) ==
    LET code == DeleteCode(tok, id, users, now, news) IN
    /\ news' = IF code = 200 THEN Without(news, id) ELSE news
    /\ gone' = IF code = 200 THEN [gone EXCEPT !.news = @ \cup {id}] ELSE gone
    /\ cresp' = [op |-> "delete", kind |-> "news", tok |-> tok, id |-> id,
                 code |-> code]
    /\ UNCHANGED <<videos, authVars, concVars, limitVars>>

\* A share or like handler that does not look at the status.
EngageCodeAnyStatus(id, store) == IF id \notin DOMAIN store THEN 404 ELSE 200

\* POST /:id/share and POST /:id/like: 404, 403 unless published, else 200
EngageCode(id, store) ==
    IF id \notin DOMAIN store THEN 404
    ELSE IF store[id].status # "published" THEN 403
    ELSE 200

ShareNews(id) ==
    LET code == EngageCode(id, news) IN
    /\ code = 200 => NewsEngagement(news[id]) < MaxCount
    /\ news' = IF code = 200
               THEN [news EXCEPT ![id] = saveShares(@, @)] ELSE news
    /\ cresp' = [op |-> "share", kind |-> "news", id |-> id, code |-> code,
                 was |-> Was(news, id)]
    /\ UNCHANGED <<videos, gone, authVars, concVars, limitVars>>

\* GET /:id of both routes: 404, 403 for a draft unless req.user is an
\* admin, else 200.
GetCode(id, ru, store) ==
    IF id \notin DOMAIN store THEN 404
    ELSE IF store[id].status = "draft" /\ (ru = NoUser \/ ru.role # "admin")
    THEN 403
    ELSE 200

\* increment_view === 'true' && status === 'published'
CountsView(id, ru, inc, store) ==
    GetCode(id, ru, store) = 200 /\ inc /\ store[id].status = "published"

GetNews(id, ru, inc) ==
    /\ CountsView(id, ru, inc, news) => NewsEngagement(news[id]) < MaxCount
    /\ news' = IF CountsView(id, ru, inc, news)
               THEN [news EXCEPT ![id] = incViews(@, @)] ELSE news
    /\ cresp' = [op |-> "get", kind |-> "news", id |-> id, user |-> ru,
                 code |-> GetCode(id, ru, news), was |-> Was(news, id)]
    /\ UNCHANGED <<videos, gone, authVars, concVars, limitVars>>

\* GET / of both routes: the status filter of the query built for a caller
\* whose req.user is ru and whose query string carries the statuses qs (a
\* set, empty when it carries none).
ListFilter(ru, qs) ==
    IF ru = NoUser \/ ru.role # "admin" THEN "published"
    ELSE IF qs = {} THEN "published"
    ELSE The(qs)

\* Model.find(query) with no other filter, on one page: the ids returned.
Listed(store, status) == {i \in DOMAIN store : store[i].status = status}

\* GET /news and GET /videos: 400 when validateQuery rejects the status.
List(kind, ru, qs) ==
    /\ cresp' = IF qs \subseteq {"published", "draft"}
                THEN [op |-> "list", kind |-> kind, user |-> ru,
                      status |-> qs, code |-> 200,
                      items |-> Listed(Store(kind), ListFilter(ru, qs))]
                ELSE [op |-> "list", kind |-> kind, user |-> ru,
                      status |-> qs, code |-> 400, items |-> {}]
    /\ UNCHANGED <<news, videos, gone, authVars, concVars, limitVars>>

\* The status parameters tried on GET /.
QueryStatuses == {{}, {"published"}, {"draft"}, {"archived"}}

\* A lookup that compares the id with the stored URLs.
HasYoutubeUrl(store, yid) == \E v \in DOMAIN store : store[v].youtubeUrl = yid

\* Video.findOne({ youtubeId })
HasYoutubeId(store, yid) == \E v \in DOMAIN store : store[v].youtubeId = yid

\* POST /videos behind [authMiddleware, adminMiddleware, ...validateVideo]:
\* 400 for a body the validators reject, for a URL without an id and for an
\* id already stored; 500 when save() rejects the id.
CreateVideoAnswer(tok, body, us, t, store) ==
    LET g == adminGuard(tok, us, t)
        youtubeId == YoutubeIdOf[body.youtubeUrl] IN
    IF g.code # 0 THEN [code |-> g.code, message |-> "Access denied"]
    ELSE IF ~body.ok \/ ~UrlValid(body.youtubeUrl)
    THEN [code |-> 400, message |-> "Validation failed"]
    ELSE IF youtubeId = <<>>
    THEN [code |-> 400, message |-> "Invalid YouTube URL"]
    ELSE IF HasYoutubeId(store, youtubeId)
    THEN [code |-> 400,
          message |-> "Video with this YouTube ID already exists"]
    ELSE IF ~IdValid(youtubeId) \/ ~CountersValid(body)
    THEN [code |-> 500, message |-> "Failed to create video"]
    ELSE [code |-> 201, message |-> "Video created successfully"]

CreateVideo(tok, body) ==
    LET answer == CreateVideoAnswer(tok, body, users, now, videos)
        id == NextId(videos, gone.videos) IN
    /\ answer.code = 201 => id <= MaxVideos
    /\ videos' = IF answer.code = 201
                 THEN videos @@ (id :> NewVideo(body,
                          YoutubeIdOf[body.youtubeUrl],
                          adminGuard(tok, users, now).user.userId, now))
                 ELSE videos
    /\ cresp' = [op |-> "create", kind |-> "video", tok |-> tok, id |-> id,
                 code |-> answer.code, body |-> body,
                 message |-> answer.message, url |-> body.youtubeUrl,
                 valid |-> body.ok]
    /\ UNCHANGED <<news, gone, authVars, concVars, limitVars>>

UniqueIndexAbsent(store, id, yid) == TRUE

\* videoSchema.index({ youtubeId: 1 }, { unique: true }): the write of yid
\* on the document id (0 for an insert) is admitted when no other stored
\* document carries yid; otherwise the write fails (E11000).
UniqueIndexAdmits(store, id, yid) == ~HasYoutubeId(Without(store, id), yid)

\* PUT /videos/:id: as for articles, and 500 when the update validators
\* reject the new id or the unique index on youtubeId rejects the write.
UpdateVideoCode(tok, id, body, us, t, store) ==
    LET g == adminGuard(tok, us, t)
        youtubeId == YoutubeIdOf[body.youtubeUrl] IN
    IF g.code # 0 THEN g.code
    ELSE IF ~body.ok \/ ~UrlValid(body.youtubeUrl) THEN 400
    ELSE IF youtubeId = <<>> THEN 400
    ELSE IF ~IdValid(youtubeId) \/ ~CountersValid(body) THEN 500
    ELSE IF id \notin DOMAIN store THEN 404
    ELSE IF ~UniqueIndexAdmits(store, id, youtubeId) THEN 500
    ELSE 200

UpdateVideo(tok, id, body) ==
    LET code == UpdateVideoCode(tok, id, body, users, now, videos) IN
    /\ videos' = IF code = 200
                 THEN [videos EXCEPT ![id] = UpdateVideoDoc(@, body)]
                 ELSE videos
    /\ cresp' = [op |-> "update", kind |-> "video", tok |-> tok, id |-> id,
                 code |-> code, body |-> body,
                 was |-> Was(videos, id)]
    /\ UNCHANGED <<news, gone, authVars, concVars, limitVars>>

DeleteVideo(tok, id) ==
    LET code == DeleteCode(tok, id, users, now, videos) IN
    /\ videos' = IF code = 200 THEN Without(videos, id) ELSE videos
    /\ gone' = IF code = 200 THEN [gone EXCEPT !.videos = @ \cup {id}]
               ELSE gone
    /\ cresp' = [op |-> "delete", kind |-> "video", tok |-> tok, id |-> id,
                 code |-> code]
    /\ UNCHANGED <<news, authVars, concVars, limitVars>>

ShareVideo(id) ==
    LET code == EngageCode(id, videos) IN
    /\ code = 200 => VideoEngagement(videos[id]) < MaxCount
    /\ videos' = IF code = 200
                 THEN [videos EXCEPT ![id] = saveShares(@, @)] ELSE videos
    /\ cresp' = [op |-> "share", kind |-> "video", id |-> id, code |-> code,
                 was |-> Was(videos, id)]
    /\ UNCHANGED <<news, gone, authVars, concVars, limitVars>>

LikeVideo(id) ==
    LET code == EngageCode(id, videos) IN
    /\ code = 200 => VideoEngagement(videos[id]) < MaxCount
    /\ videos' = IF code = 200
                 THEN [videos EXCEPT ![id] = saveLikes(@, @)] ELSE videos
    /\ cresp' = [op |-> "like", kind |-> "video", id |-> id, code |-> code,
                 was |-> Was(videos, id)]
    /\ UNCHANGED <<news, gone, authVars, concVars, limitVars>>

GetVideo(id, ru, inc) ==
    /\ CountsView(id, ru, inc, videos) =>
           VideoEngagement(videos[id]) < MaxCount
    /\ videos' = IF CountsView(id, ru, inc, videos)
                 THEN [videos EXCEPT ![id] = incViews(@, @)] ELSE videos
    /\ cresp' = [op |-> "get", kind |-> "video", id |-> id, user |-> ru,
                 code |-> GetCode(id, ru, videos), was |-> Was(videos, id)]
    /\ UNCHANGED <<news, gone, authVars, concVars, limitVars>>

\* The request bodies tried. ok: the validators of the fields not modelled
\* (title, summary, content, category, ...) accept the body. An optional
\* field is a set, empty when the body does not carry it.
NewsBodies ==
    {[ok |-> FALSE, status |-> {}, publishedAt |-> {}, views |-> {},
      createdBy |-> {}]}
    \cup [ok : {TRUE}, status : {{}, {"draft"}, {"published"}},
          publishedAt : {{}, {0}}, views : {{}}, createdBy : {{}}]

\* Bodies that carry fields the validators do not name: a counter, an owner.
ExtraBodies ==
    [ok : {TRUE}, status : {{}}, publishedAt : {{}},
     views : {{0}, {1}, {-1}}, createdBy : {{}}]
    \cup [ok : {TRUE}, status : {{}, {"published"}}, publishedAt : {{}},
          views : {{}}, createdBy : {{"e1"}}]

VideoBodiesOf(statuses, urls) ==
    {[ok |-> FALSE, status |-> {}, publishedAt |-> {}, views |-> {},
      createdBy |-> {}, youtubeUrl |-> UrlWatch1, youtubeId |-> {}]}
    \cup [ok : {TRUE}, status : statuses, publishedAt : {{}}, views : {{}},
          createdBy : {{}}, youtubeUrl : urls, youtubeId : {{}}]

\* Bodies that carry a youtubeId of their own next to the URL.
IdBodies ==
    [ok : {TRUE}, status : {{}}, publishedAt : {{}}, views : {{}},
     createdBy : {{}}, youtubeUrl : {UrlWatch1, UrlEmbed2},
     youtubeId : {{<<"ID2">>}}]

\* The bodies tried on the routes that write the URL, and on the others.
UrlBodies == VideoBodiesOf({{}, {"published"}}, Urls) \cup IdBodies
StatusBodies == VideoBodiesOf({{}, {"draft"}, {"published"}}, {UrlWatch1})

\* The callers of the content routes: no token, a guest, the tokens issued.
ContentTokens == {tok \in Tokens : tok.kind \in {"none", "valid"}}

\* The tokens issued to the seeded administrator.
AdminTokens == {tok \in Tokens : tok.userId = Root}

ReqUsers ==
    {NoUser} \cup {[userId |-> e, role |-> r] : e \in Emails, r \in Roles}
    \cup {[userId |-> "guest", role |-> "guest"]}

\* The status requests tried, as <<query status, body status>>.
StatusInputs ==
    {<<"bogus", "active">>} \cup {<<"active", b>> : b \in Statuses \cup {"bogus"}}

\* The logins tried: any password on a registered address; the seeded
\* administrator signs in with its own password.
LoginInputs == (Emails \X Passwords) \cup {<<Root, RootPassword>>}

\* The processes serving concurrent requests, and the request of a process
\* that has served none.
Procs == 1..NumProcs
NoRequest == [op |-> "none", kind |-> "none", id |-> 0, seen |-> {}]

NoDocs == [x \in {} |-> 0]

Init ==
    /\ users = (Root :> NewUser(RootPassword, "super_admin"))
    /\ issued = {}
    /\ now = 0
    /\ runs = (Root :> FreshRun)
    /\ resp = [op |-> "none", code |-> 0]
    /\ news = NoDocs
    /\ videos = NoDocs
    /\ gone = [news |-> {}, videos |-> {}]
    /\ cresp = [op |-> "none", code |-> 0]
    /\ pc = [p \in Procs |-> "idle"]
    /\ doc = [p \in Procs |-> NoRequest]
    /\ acks = NoDocs
    /\ attempts = NoDocs
    /\ passed = NoDocs
    /\ lresp = [op |-> "none", code |-> 0]

Next ==
    \/ \E e \in Emails, p \in RegisterPasswords,
          r \in {"user", "admin", "super_admin"} : Register(e, p, r)
    \/ \E in \in LoginInputs : Login(in[1], in[2])
    \/ \E tok \in Tokens : Me(tok)
    \/ Guest
    \/ \E tok \in Tokens, id \in Emails, st \in StatusInputs :
           UpdateUserStatus(tok, id, st[1], st[2])
    \/ \E tok \in Tokens : Protected(tok)
    \/ \E tok \in Tokens \cup {DeletedToken} : Optional(tok)
    \/ \E ru \in ReqUsers : RoleCheck(ru)
    \/ Tick

Spec == Init /\ [][Next]_vars

\* The two login routes, with the administrator's status route and the
\* clock.
PhoneNext ==
    \/ \E e \in Emails, p \in RegisterPasswords : Register(e, p, "user")
    \/ \E in \in LoginInputs : Login(in[1], in[2])
    \/ \E ph \in Phones, otp \in {validOTP, "0000"}, valid \in BOOLEAN :
           PhoneLogin(ph, otp, valid)
    \/ \E tok \in AdminTokens, id \in DOMAIN users \ {Root}, bs \in Statuses :
           UpdateUserStatus(tok, id, "active", bs)
    \/ Tick

PhoneSpec == Init /\ [][PhoneNext]_vars

\* The content routes called with every token: no token, a token that
\* jwt.verify rejects, a guest token, the token of a registered user or
\* administrator.
AccessBodies ==
    [ok : {TRUE}, status : {{"draft"}, {"published"}}, publishedAt : {{}},
     views : {{}}, createdBy : {{}}]
AccessVideoBodies ==
    [ok : {TRUE}, status : {{"draft"}, {"published"}}, publishedAt : {{}},
     views : {{}}, createdBy : {{}}, youtubeUrl : {UrlWatch1},
     youtubeId : {{}}]

AccessNext ==
    \/ \E e \in Emails, p \in RegisterPasswords : Register(e, p, "user")
    \/ Login(Root, RootPassword)
    \/ \E tok \in Tokens, body \in AccessBodies : CreateNews(tok, body)
    \/ \E tok \in Tokens, id \in 1..MaxNews, body \in AccessBodies :
           UpdateNews(tok, id, body)
    \/ \E tok \in Tokens, id \in 1..MaxNews : DeleteNews(tok, id)
    \/ \E id \in 1..MaxNews : ShareNews(id)
    \/ \E tok \in Tokens, body \in AccessVideoBodies : CreateVideo(tok, body)
    \/ \E tok \in Tokens, id \in 1..MaxVideos, body \in AccessVideoBodies :
           UpdateVideo(tok, id, body)
    \/ \E tok \in Tokens, id \in 1..MaxVideos : DeleteVideo(tok, id)
    \/ \E id \in 1..MaxVideos : LikeVideo(id)

AccessSpec == Init /\ [][AccessNext]_vars

\* The ids of callers and owners tried on the ownership guard, the callers
\* and the documents found: createdBy is a set, empty when the document has
\* no owner reference.
OwnerIds == {"e1", "e2", "e3", Root, "guest"}
OwnershipCallers ==
    {NoUser} \cup [userId : OwnerIds, role : Roles \cup {"guest"}]
Resources ==
    {[found |-> FALSE, createdBy |-> {}]}
    \cup [found : {TRUE}, createdBy : {{}} \cup {{i} : i \in OwnerIds}]

\* The guards that no route mounts, on every request they can receive.
GuardNext ==
    \E ru \in OwnershipCallers, resource \in Resources : Ownership(ru, resource)

GuardSpec == Init /\ [][GuardNext]_vars

\* The article routes, one handler per step; the seeded administrator signs
\* in to obtain a token.
NewsNext ==
    \/ Login(Root, RootPassword)
    \/ \E tok \in ContentTokens, body \in NewsBodies \cup ExtraBodies :
           CreateNews(tok, body)
    \/ \E tok \in ContentTokens, id \in 1..MaxNews,
          body \in NewsBodies \cup ExtraBodies : UpdateNews(tok, id, body)
    \/ \E tok \in ContentTokens, id \in 1..MaxNews : DeleteNews(tok, id)
    \/ \E id \in 1..MaxNews : ShareNews(id)
    \/ \E id \in 1..MaxNews, ru \in ReqUsers, inc \in BOOLEAN :
           GetNews(id, ru, inc)
    \/ \E id \in 1..MaxNews, tok \in Tokens :
           GetNews(id, optionalAuthMiddleware(tok, users, now), FALSE)
    \/ \E ru \in ReqUsers, qs \in QueryStatuses : List("news", ru, qs)

NewsSpec == Init /\ [][NewsNext]_vars

\* The video routes that write the URL and its id, one handler per step.
VideoNext ==
    \/ Login(Root, RootPassword)
    \/ \E tok \in ContentTokens, body \in UrlBodies : CreateVideo(tok, body)
    \/ \E tok \in ContentTokens, id \in 1..MaxVideos, body \in UrlBodies :
           UpdateVideo(tok, id, body)
    \/ \E tok \in ContentTokens, id \in 1..MaxVideos : DeleteVideo(tok, id)

VideoSpec == Init /\ [][VideoNext]_vars

\* The routes of both kinds that read or write status and counters, called
\* by the administrator (create, update, delete) and by anyone (the others).
EngageNext ==
    \/ Login(Root, RootPassword)
    \/ \E tok \in AdminTokens, body \in NewsBodies : CreateNews(tok, body)
    \/ \E tok \in AdminTokens, id \in 1..MaxNews, body \in NewsBodies :
           UpdateNews(tok, id, body)
    \/ \E tok \in AdminTokens, id \in 1..MaxNews : DeleteNews(tok, id)
    \/ \E id \in 1..MaxNews : ShareNews(id)
    \/ \E id \in 1..MaxNews, inc \in BOOLEAN : GetNews(id, NoUser, inc)
    \/ \E tok \in AdminTokens, body \in StatusBodies : CreateVideo(tok, body)
    \/ \E tok \in AdminTokens, id \in 1..MaxVideos, body \in StatusBodies :
           UpdateVideo(tok, id, body)
    \/ \E tok \in AdminTokens, id \in 1..MaxVideos : DeleteVideo(tok, id)
    \/ \E id \in 1..MaxVideos : ShareVideo(id)
    \/ \E id \in 1..MaxVideos : LikeVideo(id)
    \/ \E id \in 1..MaxVideos, inc \in BOOLEAN : GetVideo(id, NoUser, inc)

EngageSpec == Init /\ [][EngageNext]_vars

(***************************************************************************)
(* GET /:id, POST /:id/share and POST /:id/like served concurrently: each  *)
(* request is a process that stops at its awaits, first after findById,    *)
(* then after its write.                                                   *)
(***************************************************************************)
\* The 200 responses sent so far to requests of key k = <<kind, id, op>>.
Acked(k) == IF k \in DOMAIN acks THEN acks[k] ELSE 0

RECURSIVE SumOver(_, _)
SumOver(f, S) ==
    IF S = {} THEN 0
    ELSE LET x == CHOOSE y \in S : TRUE IN f[x] + SumOver(f, S \ {x})

\* The requests that were answered 200 or are being served.
Started == SumOver(acks, DOMAIN acks)
           + Cardinality({p \in Procs : pc[p] = "loaded"})

\* const article = await Model.findById(id)
Find(p, op, kind, id) ==
    /\ pc[p] = "idle"
    /\ Started < MaxRequests
    /\ pc' = [pc EXCEPT ![p] = "loaded"]
    /\ doc' = [doc EXCEPT ![p] = [op |-> op, kind |-> kind, id |-> id,
                                  seen |-> Was(Store(kind), id)]]
    /\ UNCHANGED <<acks, authVars, contentVars, limitVars>>

\* The status the handler answers from the document it loaded; the caller
\* of GET /:id is anonymous.
FoundCode(r) ==
    IF r.seen = {} THEN 404
    ELSE IF r.op = "view" /\ The(r.seen).status = "draft" THEN 403
    ELSE IF r.op # "view" /\ The(r.seen).status # "published" THEN 403
    ELSE 200

\* The write of the request r on the stored document s.
Written(s, r) ==
    CASE r.op = "view" -> incViews(s, The(r.seen))
      [] r.op = "share" -> saveShares(s, The(r.seen))
      [] r.op = "like" -> saveLikes(s, The(r.seen))

\* The rest of the handler: the write and the response.
Respond(p) ==
    LET r == doc[p]
        ok == FoundCode(r) = 200 /\ r.id \in DOMAIN Store(r.kind)
        k == <<r.kind, r.id, r.op>> IN
    /\ pc[p] = "loaded"
    /\ pc' = [pc EXCEPT ![p] = "idle"]
    /\ news' = IF ok /\ r.kind = "news"
               THEN [news EXCEPT ![r.id] = Written(@, r)] ELSE news
    /\ videos' = IF ok /\ r.kind = "video"
                 THEN [videos EXCEPT ![r.id] = Written(@, r)] ELSE videos
    /\ acks' = IF ~ok THEN acks
               ELSE IF k \in DOMAIN acks THEN [acks EXCEPT ![k] = @ + 1]
               ELSE acks @@ (k :> 1)
    /\ UNCHANGED <<doc, gone, cresp, authVars, limitVars>>

\* The operations a kind offers.
OpsOf(kind) == IF kind = "news" THEN {"view", "share"}
               ELSE {"view", "share", "like"}

ConcBodies ==
    [ok : {TRUE}, status : {{"draft"}, {"published"}}, publishedAt : {{}},
     views : {{}}, createdBy : {{}}]
ConcVideoBodies ==
    [ok : {TRUE}, status : {{"draft"}, {"published"}}, publishedAt : {{}},
     views : {{}}, createdBy : {{}}, youtubeUrl : {UrlWatch1},
     youtubeId : {{}}]

ConcNext ==
    \/ Login(Root, RootPassword)
    \/ \E tok \in AdminTokens, body \in ConcBodies : CreateNews(tok, body)
    \/ \E tok \in AdminTokens, body \in ConcVideoBodies : CreateVideo(tok, body)
    \/ \E p \in Procs, kind \in Kinds :
           \E op \in OpsOf(kind), id \in DOMAIN Store(kind) \cup {0} :
               Find(p, op, kind, id)
    \/ \E p \in Procs : Respond(p)

ConcSpec == Init /\ [][ConcNext]_vars

(***************************************************************************)
(* Properties of the auth routes, checked under Spec.                      *)
(***************************************************************************)
\* The last response is that of a login on a stored account.
LoginAnswered == resp.op = "login" /\ resp.known

\* C1 as stated: after 5 consecutive wrong-password logins that began with
\* counter 0 and no lock, every login on the account in the next 2 hours is
\* answered 423 Locked, for every account.
C1_LockedAfterFiveAnyAccount ==
    LoginAnswered /\ resp.inRun => resp.code = 423

\* C1 amended: the same, for an account that was active at each of the five
\* wrong-password logins (each was answered 401 and counted).
C1_LockedAfterFive ==
    LoginAnswered /\ resp.inRun /\ resp.runActive => resp.code = 423

\* The 6th login, with the correct password, is answered 423.
C1_Witness ==
    LoginAnswered /\ resp.inRun /\ resp.runActive /\ resp.ok /\ resp.code = 423

\* C2: after a successful login the stored counter of the account is 0 and
\* no lockUntil remains, whatever the counter was before.
C2_SuccessResets ==
    LoginAnswered /\ resp.code = 200 =>
        /\ users[resp.email].loginAttempts = 0
        /\ users[resp.email].lockUntil = {}

\* A successful login on an account whose counter was above 0.
C2_Witness ==
    LoginAnswered /\ resp.code = 200 /\ resp.prev > 0
    /\ users[resp.email].loginAttempts = 0

\* The last request was served as a stored account: GET /me answered 200,
\* or authMiddleware called next() with that account as req.user.
ServedAs(e) ==
    /\ e \in DOMAIN users
    /\ resp.op \in {"me", "protected"}
    /\ resp.as = e
    /\ resp.code = (IF resp.op = "me" THEN 200 ELSE 0)

\* C9: no token-protected request is served as an account that is not active
\* or is locked.
C9_NoServiceWhenSuspendedOrLocked ==
    \A e \in DOMAIN users :
        ServedAs(e) => users[e].status = "active" /\ ~isLocked(users[e], now)

\* C10: the admin check passes exactly for admin and super_admin, the
\* super-admin check exactly for super_admin; without a caller both answer
\* 401; guest and user are answered 403 by both.
C10_RoleChecks ==
    resp.op = "roleCheck" =>
        /\ resp.admin = 0 <=> resp.user.role \in {"admin", "super_admin"}
        /\ resp.super = 0 <=> resp.user.role = "super_admin"
        /\ resp.user = NoUser => resp.admin = 401 /\ resp.super = 401
        /\ resp.user.role \in {"guest", "user"} =>
               resp.admin = 403 /\ resp.super = 403

\* An admin passes the admin check and fails the super-admin check.
C10_Witness ==
    /\ resp.op = "roleCheck"
    /\ resp.user.role = "admin"
    /\ resp.admin = 0
    /\ resp.super = 403

\* The last login had a wrong password and was the 5th of a run of
\* wrong-password logins on an account that began the run with counter 0 and
\* no lock and was active at each of them.
FifthWrongLogin ==
    /\ LoginAnswered /\ ~resp.ok /\ ~resp.inRun
    /\ runs[resp.email].n = maxAttempts /\ runs[resp.email].active

\* C12: the 5th consecutive wrong-password login on a fresh account is
\* answered 423, and so is a login with the correct password while the lock
\* lasts.
C12_FifthAnswered423 ==
    /\ FifthWrongLogin => resp.code = 423
    /\ (LoginAnswered /\ resp.inRun /\ resp.runActive /\ resp.ok) =>
           resp.code = 423

\* C12 amended: the 5th consecutive wrong-password login on a fresh account
\* is answered 401 and sets the lock for 2 hours from then; a login with the
\* correct password while the lock lasts is answered 423.
C12_FifthAnswered401ThenLocked ==
    /\ FifthWrongLogin =>
           /\ resp.code = 401
           /\ users[resp.email].lockUntil = {runs[resp.email].at + lockTime}
    /\ (LoginAnswered /\ resp.inRun /\ resp.runActive /\ resp.ok) =>
           resp.code = 423

\* The 5th wrong-password login was answered 401 and the account is locked.
C12_Witness ==
    /\ FifthWrongLogin /\ resp.code = 401 /\ resp.prev = maxAttempts - 1
    /\ isLocked(users[resp.email], now)

\* C13: a login route answers 200 (and issues a token) only for an account
\* that is active and not locked: POST /phone-login answers 423 for a locked
\* account and 403 for a non-active one, and after a 200 of POST /login the
\* account is active without lock.
C13_TokenOnlyWhenActiveUnlocked ==
    /\ (resp.op = "phoneLogin" /\ resp.email # "none") =>
           /\ resp.locked => resp.code = 423
           /\ users[resp.email].status # "active" => resp.code \in {403, 423}
           /\ resp.code = 200 =>
                  ~resp.locked /\ users[resp.email].status = "active"
    /\ (LoginAnswered /\ resp.code = 200) =>
           /\ users[resp.email].status = "active"
           /\ ~isLocked(users[resp.email], now)

\* C14: a login on a locked account is answered 423 whatever the password
\* and changes no account; a login on an unknown address (401) or on a
\* non-active account (403 when it is not locked) changes no account either.
C14_RefusedLoginChangesNothing ==
    [][(resp' # resp /\ resp'.op = "login") =>
           IF resp'.email \notin DOMAIN users
           THEN resp'.code = 401 /\ users' = users
           ELSE LET u == users[resp'.email] IN
                /\ isLocked(u, now) => resp'.code = 423 /\ users' = users
                /\ (~isLocked(u, now) /\ u.status # "active") =>
                       resp'.code = 403 /\ users' = users
      ]_vars

\* A login with the correct password was refused during the lock, and the
\* counter and the lock are as they were.
C14_Witness ==
    /\ LoginAnswered /\ resp.code = 423 /\ resp.ok
    /\ users[resp.email].loginAttempts = resp.prev
    /\ resp.prev = maxAttempts
    /\ isLocked(users[resp.email], now)

\* C11: for an authenticated caller and an existing resource, the ownership
\* guard grants access exactly when the caller is admin or super_admin or
\* owns the resource, and answers 403 otherwise, also when the resource has
\* no owner reference.
C11_OwnershipIffOwnerOrAdmin ==
    (resp.op = "ownership" /\ resp.user # NoUser /\ resp.resource.found) =>
        /\ resp.code = 0 <=>
               \/ resp.user.role \in {"admin", "super_admin"}
               \/ resp.resource.createdBy = {resp.user.userId}
        /\ resp.code # 0 => resp.code = 403

(***************************************************************************)
(* Properties of the content routes.                                       *)
(***************************************************************************)
AllDocs == {news[i] : i \in DOMAIN news} \cup {videos[i] : i \in DOMAIN videos}

\* C3: in every reachable state, every article and every video has a publish
\* timestamp if and only if its status is published, whatever sequence of
\* create, update (PUT) and engagement requests led there.
C3_TimestampIffPublished ==
    \A d \in AllDocs : d.publishedAt # {} <=> d.status = "published"

\* The last request was an update answered 200 that found status from and
\* left status to.
UpdateMoved(from, to) ==
    /\ cresp.op = "update" /\ cresp.code = 200
    /\ cresp.was # {} /\ The(cresp.was).status = from
    /\ cresp.id \in DOMAIN Store(cresp.kind)
    /\ Store(cresp.kind)[cresp.id].status = to

\* C4: an update that moves status from draft to published leaves a publish
\* timestamp, and an update that moves status from published to draft leaves
\* none (so that the round trip ends in draft without a timestamp).
C4_UpdateSetsAndClears ==
    /\ UpdateMoved("draft", "published") =>
           Store(cresp.kind)[cresp.id].publishedAt # {}
    /\ UpdateMoved("published", "draft") =>
           Store(cresp.kind)[cresp.id].publishedAt = {}

\* C5: whenever no share or like request is being served, each stored share
\* counter and like counter equals the number of share or like requests
\* answered 200 on that item: no increment of concurrent requests is lost.
C5_SharesAndLikesAllCounted ==
    (\A p \in Procs : pc[p] = "idle") =>
        \A kind \in Kinds : \A id \in DOMAIN Store(kind) :
            /\ Store(kind)[id].shares = Acked(<<kind, id, "share">>)
            /\ kind = "video" =>
                   Store(kind)[id].likes = Acked(<<kind, id, "like">>)

\* C6: the stored view counter of every item equals the number of GET /:id
\* requests that counted a view on it, for every interleaving of concurrent
\* handlers: two concurrent views add exactly 2.
C6_ViewsAllCounted ==
    \A kind \in Kinds : \A id \in DOMAIN Store(kind) :
        Store(kind)[id].views = Acked(<<kind, id, "view">>)

\* Two GET /:id requests on one item both loaded it with 0 views before
\* either wrote, both were answered, and the item has 2 views.
C6_Witness ==
    \E p \in Procs, q \in Procs :
        /\ p # q /\ pc[p] = "idle" /\ pc[q] = "idle"
        /\ doc[p].op = "view" /\ doc[q] = doc[p]
        /\ doc[p].seen # {} /\ The(doc[p].seen).views = 0
        /\ The(doc[p].seen).status = "published"
        /\ doc[p].id \in DOMAIN Store(doc[p].kind)
        /\ Store(doc[p].kind)[doc[p].id].views = 2

\* The document w with the counter of the operation op one higher.
Bumped(w, op) ==
    IF op = "share" THEN [w EXCEPT !.shares = @ + 1]
    ELSE [w EXCEPT !.likes = @ + 1]

\* C7: a share or like request is answered 404 exactly when the id is
\* missing, 403 when the item is a draft, leaving the item as it was, and
\* 200 when it is published, leaving the item as it was but for the counter
\* of the request, which is one higher.
C7_EngagementOutcome ==
    cresp.op \in {"share", "like"} =>
        LET store == Store(cresp.kind) IN
        /\ cresp.code \in {200, 403, 404}
        /\ cresp.code = 404 <=> cresp.was = {}
        /\ cresp.code = 404 => cresp.id \notin DOMAIN store
        /\ cresp.code = 403 <=>
               (cresp.was # {} /\ The(cresp.was).status = "draft")
        /\ cresp.code = 403 => store[cresp.id] = The(cresp.was)
        /\ cresp.code = 200 =>
               store[cresp.id] = Bumped(The(cresp.was), cresp.op)

\* A share request was refused on a draft that had been shared before.
C7_Witness ==
    /\ cresp.op = "share" /\ cresp.code = 403
    /\ cresp.was # {} /\ The(cresp.was).shares > 0
    /\ Store(cresp.kind)[cresp.id].shares = The(cresp.was).shares

\* C8: a video creation by an administrator whose URL yields the id of a
\* stored video is answered 400 and changes no stored video; when the body
\* passes the validators the answer is the duplicate-video message.
C8_DuplicateRejected ==
    [][( /\ cresp' # cresp
         /\ cresp'.op = "create" /\ cresp'.kind = "video"
         /\ cresp'.code \notin {401, 403, 423}
         /\ YoutubeIdOf[cresp'.url] # <<>>
         /\ \E v \in DOMAIN videos :
                videos[v].youtubeId = YoutubeIdOf[cresp'.url] )
       => /\ cresp'.code = 400
          /\ videos' = videos
          /\ (cresp'.valid /\ UrlValid(cresp'.url)) =>
                 cresp'.message = "Video with this YouTube ID already exists"
      ]_vars

\* A creation was refused as a duplicate of a video stored under another URL.
C8_Witness ==
    /\ cresp.op = "create" /\ cresp.kind = "video" /\ cresp.code = 400
    /\ cresp.valid
    /\ cresp.message = "Video with this YouTube ID already exists"
    /\ \E v \in DOMAIN videos :
           /\ videos[v].youtubeId = extractYouTubeId(cresp.url)
           /\ videos[v].youtubeUrl # cresp.url

\* C15: no step (create, PUT with any body, share, like, view) lowers the
\* view, share or like counter of an item or leaves one negative.
C15_CountersNeverDecrease ==
    [][/\ \A i \in DOMAIN news \cap DOMAIN news' :
              /\ news'[i].views >= news[i].views
              /\ news'[i].shares >= news[i].shares
       /\ \A i \in DOMAIN videos \cap DOMAIN videos' :
              /\ videos'[i].views >= videos[i].views
              /\ videos'[i].shares >= videos[i].shares
              /\ videos'[i].likes >= videos[i].likes
       /\ \A i \in DOMAIN news' :
              news'[i].views >= 0 /\ news'[i].shares >= 0
       /\ \A i \in DOMAIN videos' :
              /\ videos'[i].views >= 0 /\ videos'[i].shares >= 0
              /\ videos'[i].likes >= 0
      ]_vars

\* The token of an account that is stored with role admin or super_admin.
AdminToken(tok) ==
    /\ tok.kind = "valid" /\ ~tok.isGuest
    /\ tok.userId \in DOMAIN users
    /\ users[tok.userId].role \in {"admin", "super_admin"}

\* The documents a and b differ at most in their counters.
CountersApart(a, b) ==
    /\ a.status = b.status /\ a.publishedAt = b.publishedAt
    /\ a.createdBy = b.createdBy

\* The step changed at most the counters of the published item of the last
\* response.
OnlyCountersOfPublished ==
    /\ DOMAIN news' = DOMAIN news /\ DOMAIN videos' = DOMAIN videos
    /\ \A i \in DOMAIN news :
           \/ news'[i] = news[i]
           \/ /\ cresp'.kind = "news" /\ cresp'.id = i
              /\ news[i].status = "published"
              /\ CountersApart(news[i], news'[i])
    /\ \A i \in DOMAIN videos :
           \/ videos'[i] = videos[i]
           \/ /\ cresp'.kind = "video" /\ cresp'.id = i
              /\ videos[i].status = "published"
              /\ CountersApart(videos[i], videos'[i])
              /\ videos'[i].youtubeId = videos[i].youtubeId
              /\ videos'[i].youtubeUrl = videos[i].youtubeUrl

\* C16: a step that changes the Content Store is a create, update or delete
\* requested with the token of an admin or super_admin, or it changes only
\* counters of a published item.
C16_WritesNeedAdmin ==
    [][(news' # news \/ videos' # videos) =>
           \/ /\ cresp'.op \in {"create", "update", "delete"}
              /\ AdminToken(cresp'.tok)
           \/ /\ cresp'.op \in {"share", "like", "get"}
              /\ OnlyCountersOfPublished
      ]_vars

\* An update with the token of a plain user was refused on a stored item.
C16_Witness ==
    /\ cresp.op = "update" /\ cresp.code = 403
    /\ cresp.tok.kind = "valid" /\ cresp.tok.userId \in Emails
    /\ cresp.tok.userId \in DOMAIN users
    /\ users[cresp.tok.userId].role = "user"
    /\ cresp.id \in DOMAIN Store(cresp.kind)

\* C17: GET / answers a caller that is not an admin with exactly the
\* published items whatever status the query asks for, and a caller that is
\* admin or super_admin and asks for status=draft with the draft items.
C17_ListByRole ==
    (cresp.op = "list" /\ cresp.code = 200) =>
        LET isAdmin == /\ cresp.user # NoUser
                       /\ cresp.user.role \in {"admin", "super_admin"} IN
        /\ ~isAdmin => cresp.items = Listed(Store(cresp.kind), "published")
        /\ (isAdmin /\ cresp.status = {"draft"}) =>
               cresp.items = Listed(Store(cresp.kind), "draft")

\* C18: GET /:id answers 404 exactly when the item is absent, 403 when it is
\* a draft and req.user is not an admin, 200 with a draft when req.user is
\* admin or super_admin, and 200 with a published item for every caller.
C18_GetByRole ==
    cresp.op = "get" =>
        LET isAdmin == /\ cresp.user # NoUser
                       /\ cresp.user.role \in {"admin", "super_admin"} IN
        /\ cresp.code = 404 <=> cresp.was = {}
        /\ cresp.was # {} =>
               IF The(cresp.was).status = "draft" /\ ~isAdmin
               THEN cresp.code = 403
               ELSE cresp.code = 200

\* POST /videos served by several requests at once. The handler up to
\* "await Video.findOne({ youtubeId })": the early answers, or the lookup.
CreateFindOne(p, tok, body) ==
    LET g == adminGuard(tok, users, now)
        youtubeId == YoutubeIdOf[body.youtubeUrl]
        early == IF g.code # 0 THEN g.code
                 ELSE IF ~body.ok \/ ~UrlValid(body.youtubeUrl) THEN 400
                 ELSE IF youtubeId = <<>> THEN 400
                 ELSE 0 IN
    /\ pc[p] = "idle"
    /\ pc' = [pc EXCEPT ![p] = IF early = 0 THEN "checked" ELSE "idle"]
    /\ doc' = IF early # 0 THEN doc
              ELSE [doc EXCEPT ![p] =
                       [op |-> "create", kind |-> "video", id |-> 0,
                        seen |-> {}, tok |-> tok, body |-> body,
                        youtubeId |-> youtubeId, owner |-> g.user.userId,
                        existingVideo |-> HasYoutubeId(videos, youtubeId)]]
    /\ cresp' = IF early = 0 THEN cresp
                ELSE [op |-> "create", kind |-> "video", tok |-> tok,
                      id |-> 0, code |-> early, body |-> body,
                      url |-> body.youtubeUrl, valid |-> body.ok]
    /\ UNCHANGED <<news, videos, gone, acks, authVars, limitVars>>

\* The rest of the handler: 400 when the lookup found a video, otherwise
\* "await video.save()", which the validators or the unique index may
\* reject (500), and the response.
CreateSave(p) ==
    LET r == doc[p]
        id == NextId(videos, gone.videos)
        code == IF r.existingVideo THEN 400
                ELSE IF ~IdValid(r.youtubeId) \/ ~CountersValid(r.body)
                THEN 500
                ELSE IF ~UniqueIndexAdmits(videos, 0, r.youtubeId) THEN 500
                ELSE 201 IN
    /\ pc[p] = "checked"
    /\ code = 201 => id <= MaxVideos
    /\ pc' = [pc EXCEPT ![p] = "idle"]
    /\ doc' = [doc EXCEPT ![p] = NoRequest]
    /\ videos' = IF code = 201
                 THEN videos @@ (id :> NewVideo(r.body, r.youtubeId,
                                                r.owner, now))
                 ELSE videos
    /\ cresp' = [op |-> "create", kind |-> "video", tok |-> r.tok,
                 id |-> id, code |-> code, body |-> r.body,
                 url |-> r.body.youtubeUrl, valid |-> r.body.ok]
    /\ UNCHANGED <<news, gone, acks, authVars, limitVars>>

\* The bodies of the video writes that compete for an identifier: two URLs
\* of the video ID1, one of the video ID2.
UniqueBodies == VideoBodiesOf({{}}, {UrlWatch1, UrlShort1, UrlEmbed2})

\* Concurrent creations, with updates (one atomic findOneAndUpdate each).
UniqueNext ==
    \/ Login(Root, RootPassword)
    \/ \E p \in Procs, tok \in AdminTokens, body \in UniqueBodies :
           CreateFindOne(p, tok, body)
    \/ \E p \in Procs : CreateSave(p)
    \/ \E tok \in AdminTokens, id \in 1..MaxVideos, body \in UniqueBodies :
           UpdateVideo(tok, id, body)

UniqueSpec == Init /\ [][UniqueNext]_vars

\* C20: no two stored videos have the same derived YouTube identifier,
\* whatever the interleaving of video creations and updates.
C20_YoutubeIdUnique ==
    \A a, b \in DOMAIN videos :
        a # b => /\ videos[a].youtubeId # videos[b].youtubeId
                 /\ YoutubeIdOf[videos[a].youtubeUrl]
                        # YoutubeIdOf[videos[b].youtubeUrl]

\* Two creations raced for one identifier: both lookups found nothing, one
\* video was stored and the index refused the other save.
C20_Witness ==
    /\ cresp.op = "create" /\ cresp.kind = "video" /\ cresp.valid
    /\ cresp.code = 500
    /\ HasYoutubeId(videos, YoutubeIdOf[cresp.url])

\* C19: an item created without a status or with status draft is stored as
\* a draft without publish timestamp and with all counters 0; an item
\* created with status published is stored as published with a publish
\* timestamp; the stored owner is the creator, whatever the body carries.
C19_CreatedAsRequested ==
    (cresp.op = "create" /\ cresp.code = 201) =>
        LET d == Store(cresp.kind)[cresp.id] IN
        /\ cresp.body.status \in {{}, {"draft"}} =>
               /\ d.status = "draft" /\ d.publishedAt = {}
               /\ d.views = 0 /\ d.shares = 0
               /\ cresp.kind = "video" => d.likes = 0
        /\ cresp.body.status = {"published"} =>
               d.status = "published" /\ d.publishedAt # {}
        /\ d.createdBy = cresp.tok.userId

\* C21: the stored identifier of every video is the one derived from its
\* stored URL, whatever youtubeId the request bodies carried; an update by
\* an administrator whose URL yields no identifier is answered 400 and
\* leaves the videos unchanged.
C21_IdDerivedFromUrl ==
    /\ \A v \in DOMAIN videos :
           videos[v].youtubeId = extractYouTubeId(videos[v].youtubeUrl)
    /\ ( /\ cresp.op = "update" /\ cresp.kind = "video"
         /\ cresp.code \notin {401, 403, 423}
         /\ extractYouTubeId(cresp.body.youtubeUrl) = <<>> )
       => /\ cresp.code = 400
          /\ cresp.was = Was(videos, cresp.id)

\* A video was updated to another URL by a body carrying the identifier of
\* a different video.
C21_Witness ==
    /\ cresp.op = "update" /\ cresp.kind = "video" /\ cresp.code = 200
    /\ cresp.body.youtubeId # {}
    /\ The(cresp.body.youtubeId) # extractYouTubeId(cresp.body.youtubeUrl)
    /\ cresp.was # {}
    /\ The(cresp.was).youtubeUrl # videos[cresp.id].youtubeUrl

\* The ids of a kind that were deleted.
Gone(kind) == IF kind = "news" THEN gone.news ELSE gone.videos

\* The request answered by r passed the validators of its route and of the
\* schema (an update; the other routes have none).
PassesValidators(r) ==
    r.op = "update" =>
        /\ r.body.ok /\ CountersValid(r.body)
        /\ r.kind = "video" =>
               /\ UrlValid(r.body.youtubeUrl)
               /\ IdValid(YoutubeIdOf[r.body.youtubeUrl])

\* C22: for a caller who passes access control, DELETE on an id that is not
\* stored is answered 404 and changes nothing, and DELETE on a stored item
\* removes it whatever its status; afterwards no request on that id
\* succeeds or changes the store, and each read, share, like, delete and
\* valid update on it is answered 404.
C22_DeleteIsFinal ==
    [][( /\ cresp' # cresp
         /\ cresp'.op \in {"get", "update", "delete", "share", "like"}
         /\ cresp'.op \in {"update", "delete"} =>
                adminGuard(cresp'.tok, users, now).code = 0 )
       => LET r == cresp'
              before == Store(r.kind)
              after == IF r.kind = "news" THEN news' ELSE videos' IN
          /\ (r.op = "delete" /\ r.id \notin DOMAIN before) =>
                 r.code = 404 /\ news' = news /\ videos' = videos
          /\ (r.op = "delete" /\ r.id \in DOMAIN before) =>
                 r.code = 200 /\ r.id \notin DOMAIN after
          /\ r.id \in Gone(r.kind) =>
                 /\ r.id \notin DOMAIN after
                 /\ news' = news /\ videos' = videos
                 /\ r.code # 200
                 /\ PassesValidators(r) => r.code = 404
      ]_vars

\* A published video was deleted and a later like on its id was answered 404,
\* while another video is stored.
C22_Witness ==
    /\ cresp.op = "like" /\ cresp.code = 404
    /\ cresp.id \in gone.videos
    /\ videos # <<>>

\* Views, shares and likes of videos served concurrently while the
\* administrator creates videos and changes their status.
RaceNext ==
    \/ Login(Root, RootPassword)
    \/ \E tok \in AdminTokens, body \in ConcVideoBodies : CreateVideo(tok, body)
    \/ \E tok \in AdminTokens, id \in 1..MaxVideos, body \in ConcVideoBodies :
           UpdateVideo(tok, id, body)
    \/ \E p \in Procs, op \in OpsOf("video"),
          id \in DOMAIN videos \cup {0} : Find(p, op, "video", id)
    \/ \E p \in Procs : Respond(p)

RaceSpec == Init /\ [][RaceNext]_vars

\* C23: no step writes a view, share or like counter of an item that is a
\* draft when the step is taken, also when the engagement request
\* interleaves with the update that made the item a draft.
C23_NoCounterWriteOnDraft ==
    [][\A i \in DOMAIN videos \cap DOMAIN videos' :
           videos[i].status = "draft" =>
               /\ videos'[i].views = videos[i].views
               /\ videos'[i].shares = videos[i].shares
               /\ videos'[i].likes = videos[i].likes]_vars

(***************************************************************************)
(* POST /login served by several requests at once: each request stops at   *)
(* "await User.findByEmail(email)", then compares the password and writes. *)
(***************************************************************************)
\* The wrong-password comparisons made on account e since its last
\* successful login.
WrongKey(e) == <<"login", e, "wrong">>

\* The handler up to the document it loaded: 401 for an unknown address,
\* 423 and 403 from the loaded document, else on to comparePassword.
LoginLoad(p, e, pw) ==
    LET early == IF e \notin DOMAIN users THEN 401
                 ELSE IF isLocked(users[e], now) THEN 423
                 ELSE IF users[e].status # "active" THEN 403
                 ELSE 0 IN
    /\ pc[p] = "idle"
    /\ Acked(WrongKey(e)) + Cardinality({q \in Procs : pc[q] = "comparing"})
           < MaxWrong
    /\ pc' = [pc EXCEPT ![p] = IF early = 0 THEN "comparing" ELSE "idle"]
    /\ doc' = IF early # 0 THEN doc
              ELSE [doc EXCEPT ![p] =
                       [op |-> "login", kind |-> "none", id |-> 0,
                        seen |-> {users[e]}, email |-> e, password |-> pw]]
    /\ resp' = IF early = 0 THEN resp
               ELSE [op |-> "login", email |-> e, code |-> early,
                     known |-> e \in DOMAIN users]
    /\ UNCHANGED <<users, issued, now, runs, acks, contentVars, limitVars>>

\* The rest of the handler on the loaded document: a wrong password runs
\* incLoginAttempts, computed from the loaded document and applied to the
\* stored one; the right password runs resetLoginAttempts when the loaded
\* counter is positive, and a token is issued.
LoginFinish(p) ==
    LET r == doc[p]
        e == r.email
        u == The(r.seen)
        ok == comparePassword(u, r.password)
        k == WrongKey(e) IN
    /\ pc[p] = "comparing"
    /\ pc' = [pc EXCEPT ![p] = "idle"]
    /\ doc' = [doc EXCEPT ![p] = NoRequest]
    /\ users' = [users EXCEPT ![e] =
                    IF ~ok THEN incLoginAttempts(u, @, now)
                    ELSE IF u.loginAttempts > 0 THEN resetLoginAttempts(@)
                    ELSE @]
    /\ issued' = IF ok THEN issued \cup {e} ELSE issued
    /\ acks' = IF ok THEN [x \in DOMAIN acks \ {k} |-> acks[x]]
               ELSE IF k \in DOMAIN acks THEN [acks EXCEPT ![k] = @ + 1]
               ELSE acks @@ (k :> 1)
    /\ resp' = [op |-> "login", email |-> e,
                code |-> IF ok THEN 200 ELSE 401, known |-> TRUE]
    /\ UNCHANGED <<now, runs, contentVars, limitVars>>

LoginRaceNext ==
    \/ \E e \in Emails, p \in RegisterPasswords : Register(e, p, "user")
    \/ \E p \in Procs, e \in Emails, pw \in Passwords : LoginLoad(p, e, pw)
    \/ \E p \in Procs : LoginFinish(p)

LoginRaceSpec == Init /\ [][LoginRaceNext]_vars

\* C24: an account whose failed-login counter is 5 or more has a lock set,
\* and at most 5 wrong passwords are compared between two successful
\* logins, also when the logins on the account are served concurrently.
C24_LockedAtFive ==
    \A e \in DOMAIN users :
        /\ users[e].loginAttempts >= maxAttempts => users[e].lockUntil # {}
        /\ Acked(WrongKey(e)) <= maxAttempts

\* C25: POST /guest is always answered 200 with a token flagged as guest
\* and changes no stored account; a request with a guest token is served
\* with role guest whatever the accounts stored, and is refused (403) by
\* the admin and the super-admin checks.
C25_GuestNeverStoredNeverAdmin ==
    /\ [](/\ resp.op = "guest" =>
                /\ resp.code = 200 /\ resp.token.isGuest
                /\ resp.token \in Tokens
          /\ \A us \in {users, NoDocs} :
                 authMiddleware(GuestToken, us, now)
                     = [code |-> 0,
                        user |-> [userId |-> "guest", role |-> "guest"]]
          /\ adminGuard(GuestToken, users, now).code = 403
          /\ superAdminMiddleware(
                 authMiddleware(GuestToken, users, now).user) = 403
          /\ (resp.op = "protected" /\ resp.as = "guest") => resp.code = 0)
    /\ [][(resp' # resp /\ resp'.op = "guest") =>
              users' = users /\ issued' = issued]_vars

\* A guest token was served by authMiddleware while the one registered
\* account is not active.
C25_Witness ==
    /\ resp.op = "protected" /\ resp.as = "guest" /\ resp.code = 0
    /\ \E e \in DOMAIN users : users[e].status # "active"

(***************************************************************************)
(* The account representations the responses carry, as functions of the    *)
(* account document: a document is a function from the names of the fields *)
(* it has to their values.                                                 *)
(***************************************************************************)
\* Fields the schema declares and no response may carry (User.js:25-29,
\* 121-124).
SecretFields ==
    { "password", "resetPasswordToken", "resetPasswordExpire",
      "emailVerificationToken", "emailVerificationExpire" }

\* The document d without the fields outside F.
Restrict(d, F) == [f \in DOMAIN d \cap F |-> d[f]]

\* Account documents: the required fields, with or without a pending
\* password reset and a pending e-mail verification.
UserDocs ==
    { [f \in {"_id", "name", "email", "phone", "role", "status", "password"}
           \cup reset \cup verify |->
          CASE f = "role" -> role
            [] f = "status" -> status
            [] f = "password" -> bcryptHash("p1")
            [] OTHER -> f] :
        role \in {"user", "admin"}, status \in Statuses,
        reset \in {{}, {"resetPasswordToken", "resetPasswordExpire"}},
        verify \in {{}, {"emailVerificationToken",
                         "emailVerificationExpire"}} }

\* The schema's toJSON transform, which res.json applies to a document
toJSON(d) == Restrict(d, DOMAIN d \ SecretFields)

\* .select('-password'), and a query without .select('+password') (the
\* schema declares password with select: false)
selectNoPassword(d) == Restrict(d, DOMAIN d \ {"password"})

\* .lean(): the plain stored object, to which res.json applies no transform
lean(d) == d

\* The user object of each response, for the account document d the handler
\* holds (POST /login loads it with .select('+password')).
UserView(op, d) ==
    CASE op = "register" ->
             [f \in {"id", "name", "email", "role", "status"} |->
                 IF f = "id" THEN d["_id"] ELSE d[f]]
      [] op = "login" ->
             [f \in {"id", "name", "email", "role", "status"} |->
                 IF f = "id" THEN d["_id"] ELSE d[f]]
      [] op = "phoneLogin" ->
             [f \in {"id", "name", "phone", "role", "status"} |->
                 IF f = "id" THEN d["_id"] ELSE d[f]]
      [] op = "me" -> toJSON(selectNoPassword(d))
      [] op = "userList" -> lean(selectNoPassword(d))
      [] op = "userStatus" -> toJSON(selectNoPassword(d))

ViewOps ==
    {"register", "login", "phoneLogin", "me", "userList", "userStatus"}

\* A successful request of process p on the account document it holds.
View(p, op) ==
    /\ resp' = [op |-> op, code |-> IF op = "register" THEN 201 ELSE 200,
                user |-> UserView(op, doc[p])]
    /\ UNCHANGED <<users, issued, now, runs, contentVars, concVars, limitVars>>

ViewInit ==
    /\ users = (Root :> NewUser(RootPassword, "super_admin"))
    /\ issued = {}
    /\ now = 0
    /\ runs = (Root :> FreshRun)
    /\ resp = [op |-> "none", code |-> 0]
    /\ news = NoDocs
    /\ videos = NoDocs
    /\ gone = [news |-> {}, videos |-> {}]
    /\ cresp = [op |-> "none", code |-> 0]
    /\ pc = [p \in Procs |-> "idle"]
    /\ doc \in [Procs -> UserDocs]
    /\ acks = NoDocs
    /\ attempts = NoDocs
    /\ passed = NoDocs
    /\ lresp = [op |-> "none", code |-> 0]

ViewNext == \E p \in Procs, op \in ViewOps : View(p, op)

ViewSpec == ViewInit /\ [][ViewNext]_vars

maxAttemptsDefault == 5
windowMs == 2

\* req.ip of the callers
Ips == {"ip1", "ip2"}

rateLimitNoPrune(att, t) == att

\* "Clean old entries": the Map without the entries whose first attempt is
\* more than windowMs ago.
rateLimitPrune(att, t) ==
    [ip \in {i \in DOMAIN att : ~(t - att[i].firstAttempt > windowMs)} |->
        att[ip]]

rateLimitCodeLate(att, key) ==
    IF key \notin DOMAIN att THEN 0
    ELSE IF att[key].count > maxAttemptsDefault THEN 429
    ELSE 0

\* "Check current attempts" on the pruned Map: 0 stands for next().
rateLimitCode(att, key) ==
    IF key \notin DOMAIN att THEN 0
    ELSE IF att[key].count >= maxAttemptsDefault THEN 429
    ELSE 0

\* One request from address key through the limiter.
RateLimit(key) ==
    LET kept == rateLimitPrune(attempts, now)
        fresh == key \notin DOMAIN kept
        code == rateLimitCode(kept, key) IN
    /\ attempts' =
           IF fresh THEN kept @@ (key :> [count |-> 1, firstAttempt |-> now])
           ELSE IF code = 429 THEN kept
           ELSE [kept EXCEPT ![key].count = @ + 1]
    /\ passed' = [ip \in DOMAIN attempts' |->
                     IF ip # key THEN passed[ip]
                     ELSE IF fresh THEN 1
                     ELSE IF code = 0 THEN passed[ip] + 1
                     ELSE passed[ip]]
    /\ lresp' = [op |-> "rateLimit", ip |-> key, code |-> code, at |-> now,
                 fresh |-> fresh,
                 had |-> IF key \in DOMAIN attempts
                         THEN attempts[key].count ELSE 0]
    /\ UNCHANGED <<authVars, contentVars, concVars>>

LimitNext ==
    \/ \E key \in Ips : RateLimit(key)
    \/ Tick

LimitSpec == Init /\ [][LimitNext]_vars

\* A step of the limiter (a request that changes neither the Map nor the
\* last answer repeats the previous request at the same time).
LimitStep == attempts' # attempts \/ lresp' # lresp

\* C27: from the request that creates an address's entry until the entry
\* is pruned, a request of that address is passed on exactly when fewer
\* than 5 requests of the entry were passed on before it, and is answered
\* 429 otherwise; a request never changes the count of another address.
C27_FirstFivePassed ==
    [][LimitStep =>
          LET ip == lresp'.ip IN
          /\ lresp'.fresh => lresp'.code = 0 /\ passed'[ip] = 1
          /\ ~lresp'.fresh =>
                 /\ lresp'.code = 0 <=> passed[ip] < maxAttemptsDefault
                 /\ lresp'.code = 429 <=> passed[ip] >= maxAttemptsDefault
                 /\ passed'[ip] = passed[ip] + (IF lresp'.code = 0 THEN 1 ELSE 0)
          /\ passed'[ip] <= maxAttemptsDefault
          /\ \A other \in DOMAIN attempts' \ {ip} :
                 attempts'[other] = attempts[other]
      ]_vars

\* An address is answered 429 on its sixth request while another address
\* has an entry with a smaller count.
C27_Witness ==
    /\ lresp.op = "rateLimit" /\ lresp.code = 429
    /\ passed[lresp.ip] = maxAttemptsDefault
    /\ \E other \in DOMAIN attempts \ {lresp.ip} :
           attempts[other].count < maxAttemptsDefault

\* C28: each check first discards every entry whose first attempt is more
\* than windowMs ago and keeps the others; an address that was being
\* answered 429 is passed on by its first request made more than windowMs
\* after the first attempt of its window, which starts a new window with
\* count 1; a rejected request leaves the entry, and so the window, as it
\* was.
C28_PrunedThenPassedAgain ==
    [][LimitStep =>
          LET ip == lresp'.ip
              old(i) == now - attempts[i].firstAttempt > windowMs IN
          /\ \A i \in DOMAIN attempts \ {ip} :
                 i \in DOMAIN attempts' <=> ~old(i)
          /\ (ip \in DOMAIN attempts /\ old(ip)) =>
                 /\ lresp'.code = 0
                 /\ attempts'[ip] = [count |-> 1, firstAttempt |-> now]
          /\ (ip \in DOMAIN attempts /\ ~old(ip)) =>
                 attempts'[ip].firstAttempt = attempts[ip].firstAttempt
          /\ lresp'.code = 429 => attempts'[ip] = attempts[ip]
      ]_vars

\* An address that had used its 5 requests is passed on again after its
\* window, with a new entry.
C28_Witness ==
    /\ lresp.op = "rateLimit" /\ lresp.code = 0 /\ lresp.fresh
    /\ lresp.had = maxAttemptsDefault
    /\ attempts[lresp.ip] = [count |-> 1, firstAttempt |-> now]

C30_OptionalAuthNeverRejects ==
    [][(resp' # resp /\ resp'.op = "optional") =>
          LET tok == resp'.token
              ru == resp'.user
              stored == tok.userId \in DOMAIN users IN
          /\ resp'.code = 0
          /\ ru # NoUser <=>
                 /\ tok.kind = "valid"
                 /\ \/ tok.isGuest
                    \/ /\ stored
                       /\ users[tok.userId].status = "active"
                       /\ ~isLocked(users[tok.userId], now)
          /\ ru # NoUser =>
                 /\ ru.userId = tok.userId
                 /\ ru.role = IF tok.isGuest THEN "guest"
                              ELSE users[tok.userId].role
      ]_vars

\* The token of a locked account was passed on without a caller.
C30_Witness ==
    /\ resp.op = "optional" /\ resp.code = 0 /\ resp.user = NoUser
    /\ resp.token.kind = "valid"
    /\ resp.token.userId \in DOMAIN users
    /\ isLocked(users[resp.token.userId], now)

====
